---- MODULE Spec2Model ----
(***************************************************************************)
(* Bounded-concurrency feature-matrix loader with client-side caching, as  *)
(* implemented by ComprehensiveFeatureTable in                             *)
(* src/components/charts/FeatureAnalysisChart.tsx.                         *)
(*                                                                         *)
(* One event loop: every action below is one run-to-suspension step of a   *)
(* handler (the effect that starts a load, the continuation of a settled   *)
(* per-subject fetch, the continuation of Promise.all, the click handler   *)
(* of the PCA button and the continuation of its aggregate request).       *)
(***************************************************************************)
EXTENDS Integers, Sequences, FiniteSets, TLC

VARIABLES
    props,              \* props of the current render, or NoProps before mount
    data,               \* useState: published row collection
    loading,            \* useState: loading flag
    loadingPCA,         \* useState: PCA request in progress
    error,              \* useState: error message or NoError
    featureColumns,     \* useState: published feature-column set
    loadingProgress,    \* useState: {current, total, currentBatch, totalBatches}
    featureMatrixCache, \* module-level Map: key -> {data, columns, timestamp}
    pcaCache,           \* module-level Map: key -> {result, timestamp}
    batches,            \* closures of the fetchFeatureMatrix invocations that missed the cache
    pca,                \* closure of the PCA click handler that awaits the aggregate request
    delivered,          \* last arguments handed to onGeneratePCA, or NoDelivery
    effectPath,         \* where the last run of fetchFeatureMatrix left its synchronous part
    now,                \* Date.now()
    keyCall             \* a call of getCacheKey on its own: arguments, arrays after, result

vars == <<props, data, loading, loadingPCA, error, featureColumns, loadingProgress,
          featureMatrixCache, pcaCache, batches, pca, delivered, effectPath, now, keyCall>>

----------------------------------------------------------------------------
(* Bounds of the model *)

MaxSubjects == 7        \* longest subject list of the single-batch specification
MaxEpochs == 1          \* the clock runs up to about MaxEpochs cache durations
MaxLiveSubjects == 6    \* longest subject list of the specifications with fairness
MaxKeyLen == 2          \* longest list passed to getCacheKey on its own
MaxRunning == 2         \* most invocations of fetchFeatureMatrix running at once

(* Program constants *)

CONCURRENCY_LIMIT == 5
CACHE_DURATION_MS == 5 * 60 * 1000
FFT_SUPPORTED_FEATURES == <<"ECG", "EDA", "SBP", "DBP", "temp", "respiration", "dzdt", "dz", "z0">>

NoProps == [mounted |-> FALSE]
NoError == "null"
NoDelivery == [called |-> FALSE]
NoPca == [stage |-> "idle"]
NoCall == [called |-> FALSE]

----------------------------------------------------------------------------
(* Array helpers *)

Range(s) == {s[i] : i \in 1..Len(s)}

Min(a, b) == IF a < b THEN a ELSE b

Includes(s, x) == \E i \in 1..Len(s) : s[i] = x

RECURSIVE Filter(_, _)
\* Array.prototype.filter with a membership test against the list `allowed`
Filter(s, allowed) ==
    IF s = <<>> THEN <<>>
    ELSE IF Includes(allowed, Head(s)) THEN <<Head(s)>> \o Filter(Tail(s), allowed)
    ELSE Filter(Tail(s), allowed)

RECURSIVE Without(_, _)
\* Array.prototype.filter keeping the elements that are not in the set `banned`
Without(s, banned) ==
    IF s = <<>> THEN <<>>
    ELSE IF Head(s) \in banned THEN Without(Tail(s), banned)
    ELSE <<Head(s)>> \o Without(Tail(s), banned)

RECURSIVE InsertNum(_, _)
InsertNum(x, s) ==
    IF s = <<>> THEN <<x>>
    ELSE IF x - Head(s) < 0 THEN <<x>> \o s
    ELSE <<Head(s)>> \o InsertNum(x, Tail(s))

RECURSIVE SortNum(_)
\* subjectIds.sort((a, b) => a - b)
SortNum(s) == IF s = <<>> THEN <<>> ELSE InsertNum(Head(s), SortNum(Tail(s)))

\* Rank of a column name in the order of the default Array.prototype.sort
\* (UTF-16 code units: upper case before lower case)
StrRank(name) ==
    CASE name = "DBP" -> 1
      [] name = "ECG" -> 2
      [] name = "EDA" -> 3
      [] name = "SBP" -> 4
      [] name = "dz" -> 5
      [] name = "dzdt" -> 6
      [] name = "respiration" -> 7
      [] name = "temp" -> 8
      [] name = "z0" -> 9

RECURSIVE InsertStr(_, _)
InsertStr(x, s) ==
    IF s = <<>> THEN <<x>>
    ELSE IF StrRank(x) < StrRank(Head(s)) THEN <<x>> \o s
    ELSE <<Head(s)>> \o InsertStr(x, Tail(s))

RECURSIVE SortStr(_)
\* features.sort()
SortStr(s) == IF s = <<>> THEN <<>> ELSE InsertStr(Head(s), SortStr(Tail(s)))

RECURSIVE JoinComma(_)
\* Array.prototype.join(','), the string as its sequence of tokens
JoinComma(s) ==
    IF s = <<>> THEN <<>>
    ELSE IF Len(s) = 1 THEN <<Head(s)>>
    ELSE <<Head(s), ",">> \o JoinComma(Tail(s))

RECURSIVE Concat(_)
\* the string made of a sequence of tokens
Concat(s) == IF s = <<>> THEN "" ELSE Head(s) \o Concat(Tail(s))

\* the elements of a number array as join() writes them
NumStrings(s) == IF s = <<>> THEN <<>> ELSE [i \in 1..Len(s) |-> ToString(s[i])]

\* mutant: the features are joined in the order they were passed
getCacheKey_FeaturesAsPassed(studyNumber, features, subjectIds) ==
    Concat(<<ToString(studyNumber), ":">> \o JoinComma(features) \o <<":">>
        \o JoinComma(NumStrings(SortNum(subjectIds))))

\* mutant: the subject ids are joined without a separator
getCacheKey_NoSeparator(studyNumber, features, subjectIds) ==
    Concat(<<ToString(studyNumber), ":">> \o JoinComma(SortStr(features)) \o <<":">>
        \o NumStrings(SortNum(subjectIds)))

\* mutant: the subject ids are joined in the order they were passed
getCacheKey_Unsorted(studyNumber, features, subjectIds) ==
    Concat(<<ToString(studyNumber), ":">> \o JoinComma(SortStr(features)) \o <<":">>
        \o JoinComma(NumStrings(subjectIds)))

\* `${studyNumber}:${features.sort().join(',')}:${subjectIds.sort((a, b) => a - b).join(',')}`
getCacheKey(studyNumber, features, subjectIds) ==
    Concat(<<ToString(studyNumber), ":">> \o JoinComma(SortStr(features)) \o <<":">>
        \o JoinComma(NumStrings(SortNum(subjectIds))))

\* features.sort() and subjectIds.sort(...) sort the arrays they are called on:
\* the two arrays passed to getCacheKey as they are after the call
ArraysAfterKey(features, subjectIds) ==
    [features |-> SortStr(features), subjectIds |-> SortNum(subjectIds)]

\* mutant: with no supported column the loader falls back to the ECG feature
fftFeatures_Default(availableColumns) ==
    IF Filter(availableColumns, FFT_SUPPORTED_FEATURES) = <<>> THEN <<"ECG">>
    ELSE Filter(availableColumns, FFT_SUPPORTED_FEATURES)

\* availableColumns.filter(col => FFT_SUPPORTED_FEATURES.includes(col))
fftFeatures(availableColumns) == Filter(availableColumns, FFT_SUPPORTED_FEATURES)

----------------------------------------------------------------------------
(* Map helpers *)

MapSet(m, k, v) == [x \in DOMAIN m \cup {k} |-> IF x = k THEN v ELSE m[x]]

MapHas(m, k) == k \in DOMAIN m

EmptyMap == [x \in {} |-> 0]

\* mutant: an entry is still served at an age of exactly the cache duration
IsFresh_Inclusive(entry, t) == (t - entry.timestamp) <= CACHE_DURATION_MS

\* (Date.now() - cached.timestamp) < CACHE_DURATION_MS
IsFresh(entry, t) == (t - entry.timestamp) < CACHE_DURATION_MS

----------------------------------------------------------------------------
(* The remote service: what GET /features/matrix answers for one subject *)

IdentityColumns == {"Subject", "Emotion", "_color"}

\* result.columns of the response for subject s
ResponseColumns(s) ==
    IF s % 4 = 0 THEN <<"Subject", "Emotion", "_color">>
    ELSE IF s % 2 = 1 THEN <<"Subject", "Emotion", "_color", "ECG_dom_freq", "ECG_energy">>
    ELSE <<"Subject", "Emotion", "_color", "ECG_dom_freq", "EDA_energy">>

\* result.rows of the response for subject s: one item per emotion present
ResponseEmotions(s) ==
    IF s % 3 = 1 THEN <<"joy">>
    ELSE IF s % 3 = 2 THEN <<"joy", "fear">>
    ELSE <<>>

\* the columns of an item of the response for subject s that hold a number
NumericColumns(s) == Range(ResponseColumns(s)) \ IdentityColumns

----------------------------------------------------------------------------
(* Initial state: the application has started, nothing is mounted yet *)

InitComponent ==
    /\ props = NoProps
    /\ data = <<>>
    /\ loading = TRUE
    /\ loadingPCA = FALSE
    /\ error = NoError
    /\ featureColumns = <<>>
    /\ loadingProgress = [current |-> 0, total |-> 0, currentBatch |-> 0, totalBatches |-> 0]
    /\ featureMatrixCache = EmptyMap
    /\ pcaCache = EmptyMap
    /\ batches = <<>>
    /\ pca = NoPca
    /\ delivered = NoDelivery
    /\ effectPath = "none"
    /\ now = 0

Init == InitComponent /\ keyCall = NoCall

----------------------------------------------------------------------------
(* The batch: queue, workers, accumulator *)

Pending(b) == {s \in DOMAIN b.task : b.task[s] = "inflight"}

\* processNext up to its first suspension: take the head of the queue and
\* issue its request (fetchSubject runs synchronously up to `await fetch`)
Dispatch(b) ==
    [b EXCEPT !.queue = Tail(@), !.task[Head(b.queue)] = "inflight",
              !.dispatched = Append(@, Head(b.queue))]

\* processNext called from the start loop: one more worker promise
StartWorker(b) ==
    IF b.queue = <<>> THEN b
    ELSE [Dispatch(b) EXCEPT !.workers = @ + 1]

RECURSIVE StartWorkers_NoLimit(_, _)
\* mutant: the start loop starts a single worker
StartWorkers_Single(b, n) == StartWorker(b)

\* mutant: the start loop runs once per queued subject
StartWorkers_NoLimit(b, n) ==
    IF b.queue = <<>> THEN b ELSE StartWorkers_NoLimit(StartWorker(b), n)

RECURSIVE StartWorkers(_, _)
\* for (let i = 0; i < Math.min(CONCURRENCY_LIMIT, subjectIds.length); i++) inFlight.push(processNext())
StartWorkers(b, n) ==
    IF n = 0 THEN b ELSE StartWorkers(StartWorker(b), n - 1)

\* mutant: a worker pulls the next subject only at a wave boundary
processNext_Wave(b) ==
    IF b.queue = <<>> \/ Pending(b) # {} THEN [b EXCEPT !.workers = @ - 1]
    ELSE Dispatch(b)

\* `await processNext()` at the end of a worker's step: pull the next subject,
\* or return (the worker's promise resolves) when the queue is empty
processNext(b) ==
    IF b.queue = <<>> THEN [b EXCEPT !.workers = @ - 1]
    ELSE Dispatch(b)

\* the closure of one fetchFeatureMatrix invocation that missed the cache
NewBatch(key, studyNumber, features, ids) ==
    StartWorkers(
        [cacheKey |-> key,
         studyNumber |-> studyNumber,
         featuresParam |-> JoinComma(features),
         total |-> Len(ids),
         queue |-> ids,
         task |-> [s \in Range(ids) |-> "queued"],
         dispatched |-> <<>>,     \* the subjects taken from the queue, in that order
         hung |-> {},             \* the subjects whose request the network never answers
         allRows |-> <<>>,
         featureCols |-> <<>>,
         completedCount |-> 0,
         workers |-> 0,
         status |-> "running"],
        Min(CONCURRENCY_LIMIT, Len(ids)))

\* fetchSubject after a 2xx response that carries a row collection:
\* the new value of featureCols
CaptureColumns(featureCols, s) ==
    IF Len(featureCols) = 0
    THEN Without(ResponseColumns(s), IdentityColumns)
    ELSE featureCols

\* result.rows.map(item => ({subjectId, emotion, color, features}))
TransformRows(featureCols, s) ==
    IF ResponseEmotions(s) = <<>> THEN <<>> ELSE
    [i \in 1..Len(ResponseEmotions(s)) |->
        [subjectId |-> s,
         emotion |-> ResponseEmotions(s)[i],
         features |-> {c \in Range(featureCols) : c \in NumericColumns(s)}]]

\* mutant: the accumulator is replaced by the rows of the last response
Merge_Replace(allRows, rows) == rows

\* mutant: the rows of a response are put in front of the accumulator
Merge_Prepend(allRows, rows) == rows \o allRows

\* allRows.push(...rows)
Merge(allRows, rows) == allRows \o rows

\* mutant: the published count is the count before the increment
Publish_Lagging(progress, completedCount) ==
    [progress EXCEPT !.current = completedCount - 1, !.currentBatch = completedCount - 1]

\* mutant: the completed-count is added to the published count
Publish_Add(progress, completedCount) ==
    [progress EXCEPT !.current = @ + completedCount, !.currentBatch = @ + completedCount]

\* setLoadingProgress(prev => ({...prev, current: completedCount, currentBatch: completedCount}))
Publish(progress, completedCount) ==
    [progress EXCEPT !.current = completedCount, !.currentBatch = completedCount]

\* mutant: a new invocation discards the closures of the running ones
Running_None(bs) == <<>>

\* the closures of the invocations that have not returned yet (the closure
\* of an invocation that has returned is dropped when the next batch starts)
Running(bs) ==
    LET IsRunning(b) == b.status = "running" IN SelectSeq(bs, IsRunning)

\* the effect of [studyNumber, subjectIds.join(','), availableColumns.join(',')]:
\* it runs on mount and when one of the three changes
DepsChanged(p) ==
    IF props = NoProps THEN TRUE
    ELSE \/ props.studyNumber # p.studyNumber
         \/ JoinComma(NumStrings(props.subjectIds)) # JoinComma(NumStrings(p.subjectIds))
         \/ JoinComma(props.availableColumns) # JoinComma(p.availableColumns)

\* useEffect -> fetchFeatureMatrix, up to its first suspension
Load(p) ==
    /\ DepsChanged(p)
    /\ props' = p
    /\ LET features == fftFeatures(p.availableColumns)
           cacheKey == getCacheKey(p.studyNumber, features, p.subjectIds)
           \* getCacheKey has sorted both arrays in place
           ids == SortNum(p.subjectIds)
           sortedFeatures == SortStr(features)
       IN IF Len(p.subjectIds) = 0 \/ Len(features) = 0
          THEN /\ data' = <<>>
               /\ loading' = FALSE
               /\ effectPath' = "empty"
               /\ UNCHANGED <<error, featureColumns, loadingProgress, batches>>
          ELSE IF MapHas(featureMatrixCache, cacheKey)
                  /\ IsFresh(featureMatrixCache[cacheKey], now)
          THEN /\ data' = featureMatrixCache[cacheKey].data
               /\ featureColumns' = featureMatrixCache[cacheKey].columns
               /\ loading' = FALSE
               /\ effectPath' = "hit"
               /\ UNCHANGED <<error, loadingProgress, batches>>
          ELSE /\ loading' = TRUE
               /\ error' = NoError
               /\ data' = <<>>
               /\ loadingProgress' = [current |-> 0, total |-> Len(ids),
                                      currentBatch |-> 0, totalBatches |-> Len(ids)]
               /\ batches' = Append(Running(batches),
                                     NewBatch(cacheKey, p.studyNumber, sortedFeatures, ids))
               /\ effectPath' = "miss"
               /\ UNCHANGED featureColumns
    /\ UNCHANGED <<loadingPCA, featureMatrixCache, pcaCache, pca, delivered, now, keyCall>>

\* a per-subject request answers 2xx with a row collection
SubjectSucceeds(i, s) ==
    /\ i \in 1..Len(batches)
    /\ s \in Pending(batches[i])
    /\ LET b == batches[i]
           cols == CaptureColumns(b.featureCols, s)
           rows == TransformRows(cols, s)
           b1 == [b EXCEPT !.task[s] = "completed",
                           !.featureCols = cols,
                           !.allRows = Merge(@, rows),
                           !.completedCount = @ + 1]
       IN /\ featureColumns' = IF Len(b.featureCols) = 0 THEN cols ELSE featureColumns
          /\ loadingProgress' = Publish(loadingProgress, b1.completedCount)
          /\ data' = b1.allRows
          /\ batches' = [batches EXCEPT ![i] = processNext(b1)]
    /\ UNCHANGED <<props, loading, loadingPCA, error, featureMatrixCache, pcaCache,
                   pca, delivered, now, effectPath, keyCall>>

\* mutant: a response without a row collection is thrown as an error
SubjectNoRows_Throws(i, s) ==
    /\ i \in 1..Len(batches)
    /\ s \in Pending(batches[i])
    /\ LET b1 == [batches[i] EXCEPT !.task[s] = "norows"]
       IN batches' = [batches EXCEPT ![i] = processNext(b1)]
    /\ UNCHANGED <<props, data, loading, loadingPCA, error, featureColumns, loadingProgress,
                   featureMatrixCache, pcaCache, pca, delivered, now, effectPath, keyCall>>

\* a per-subject request answers 2xx without a row collection: fetchSubject returns []
SubjectNoRows(i, s) ==
    /\ i \in 1..Len(batches)
    /\ s \in Pending(batches[i])
    /\ LET b == batches[i]
           b1 == [b EXCEPT !.task[s] = "norows",
                           !.allRows = Merge(@, <<>>),
                           !.completedCount = @ + 1]
       IN /\ loadingProgress' = Publish(loadingProgress, b1.completedCount)
          /\ data' = b1.allRows
          /\ batches' = [batches EXCEPT ![i] = processNext(b1)]
    /\ UNCHANGED <<props, loading, loadingPCA, error, featureColumns, featureMatrixCache,
                   pcaCache, pca, delivered, now, effectPath, keyCall>>

\* mutant: the failure of one subject is not caught in the worker
SubjectFails_Rethrow(i, s) ==
    /\ i \in 1..Len(batches)
    /\ s \in Pending(batches[i])
    /\ batches' = [batches EXCEPT ![i].task[s] = "failed"]
    /\ error' = "HTTP error!"
    /\ loading' = FALSE
    /\ UNCHANGED <<props, data, loadingPCA, featureColumns, loadingProgress,
                   featureMatrixCache, pcaCache, pca, delivered, now, effectPath, keyCall>>

\* mutant: a subject whose request failed goes back to the end of the queue
SubjectFails_Retry(i, s) ==
    /\ i \in 1..Len(batches)
    /\ s \in Pending(batches[i])
    /\ LET b1 == [batches[i] EXCEPT !.task[s] = "queued", !.queue = Append(@, s)]
       IN batches' = [batches EXCEPT ![i] = processNext(b1)]
    /\ UNCHANGED <<props, data, loading, loadingPCA, error, featureColumns, loadingProgress,
                   featureMatrixCache, pcaCache, pca, delivered, now, effectPath, keyCall>>

\* mutant: after a failure the worker neither pulls the next subject nor returns
SubjectFails_Stall(i, s) ==
    /\ i \in 1..Len(batches)
    /\ s \in Pending(batches[i])
    /\ batches' = [batches EXCEPT ![i].task[s] = "failed"]
    /\ UNCHANGED <<props, data, loading, loadingPCA, error, featureColumns, loadingProgress,
                   featureMatrixCache, pcaCache, pca, delivered, now, effectPath, keyCall>>

\* a per-subject request fails (non-2xx, network error): caught and logged
SubjectFails(i, s) ==
    /\ i \in 1..Len(batches)
    /\ s \in Pending(batches[i])
    /\ LET b1 == [batches[i] EXCEPT !.task[s] = "failed"]
       IN batches' = [batches EXCEPT ![i] = processNext(b1)]
    /\ UNCHANGED <<props, data, loading, loadingPCA, error, featureColumns, loadingProgress,
                   featureMatrixCache, pcaCache, pca, delivered, now, effectPath, keyCall>>

\* mutant: overwriting an entry keeps the timestamp of the entry it replaces
Finish_KeepsTimestamp(i) ==
    /\ i \in 1..Len(batches)
    /\ batches[i].status = "running"
    /\ batches[i].workers = 0
    /\ featureMatrixCache' =
         MapSet(featureMatrixCache, batches[i].cacheKey,
                [data |-> batches[i].allRows,
                 columns |-> batches[i].featureCols,
                 timestamp |-> IF MapHas(featureMatrixCache, batches[i].cacheKey)
                               THEN featureMatrixCache[batches[i].cacheKey].timestamp
                               ELSE now])
    /\ loading' = FALSE
    /\ batches' = [batches EXCEPT ![i].status = "done"]
    /\ UNCHANGED <<props, data, loadingPCA, error, featureColumns, loadingProgress,
                   pcaCache, pca, delivered, now, effectPath, keyCall>>

\* mutant: the rows are cached only when no subject of the batch failed
Finish_CompleteOnly(i) ==
    /\ i \in 1..Len(batches)
    /\ batches[i].status = "running"
    /\ batches[i].workers = 0
    /\ featureMatrixCache' =
         IF \E s \in DOMAIN batches[i].task : batches[i].task[s] = "failed"
         THEN featureMatrixCache
         ELSE MapSet(featureMatrixCache, batches[i].cacheKey,
                     [data |-> batches[i].allRows,
                      columns |-> batches[i].featureCols,
                      timestamp |-> now])
    /\ loading' = FALSE
    /\ batches' = [batches EXCEPT ![i].status = "done"]
    /\ UNCHANGED <<props, data, loadingPCA, error, featureColumns, loadingProgress,
                   pcaCache, pca, delivered, now, effectPath, keyCall>>

\* mutant: the batch ends as soon as one worker has returned
Finish_Early(i) ==
    /\ i \in 1..Len(batches)
    /\ batches[i].status = "running"
    /\ batches[i].workers < Min(CONCURRENCY_LIMIT, batches[i].total)
    /\ featureMatrixCache' = MapSet(featureMatrixCache, batches[i].cacheKey,
                                    [data |-> batches[i].allRows,
                                     columns |-> batches[i].featureCols,
                                     timestamp |-> now])
    /\ loading' = FALSE
    /\ batches' = [batches EXCEPT ![i].status = "done"]
    /\ UNCHANGED <<props, data, loadingPCA, error, featureColumns, loadingProgress,
                   pcaCache, pca, delivered, now, effectPath, keyCall>>

\* the continuation of `await Promise.all(inFlight)`: cache the results, clear loading
Finish(i) ==
    /\ i \in 1..Len(batches)
    /\ batches[i].status = "running"
    /\ batches[i].workers = 0
    /\ featureMatrixCache' = MapSet(featureMatrixCache, batches[i].cacheKey,
                                    [data |-> batches[i].allRows,
                                     columns |-> batches[i].featureCols,
                                     timestamp |-> now])
    /\ loading' = FALSE
    /\ batches' = [batches EXCEPT ![i].status = "done"]
    /\ UNCHANGED <<props, data, loadingPCA, error, featureColumns, loadingProgress,
                   pcaCache, pca, delivered, now, effectPath, keyCall>>

----------------------------------------------------------------------------
(* Specification of one batch: the component is mounted once *)

Ids(n) == IF n = 0 THEN <<>> ELSE [i \in 1..n |-> i]

BatchSubjectLists == {Ids(n) : n \in 0..MaxSubjects} \cup {<<3, 1, 2>>}

BatchProps ==
    {[mounted |-> TRUE, studyNumber |-> 3, subjectIds |-> ids,
      availableColumns |-> <<"ECG", "affect", "EDA">>] : ids \in BatchSubjectLists}

Subjects == 1..(MaxSubjects + 1)

Mount == \E p \in BatchProps : props = NoProps /\ Load(p)

NextBatch ==
    \/ Mount
    \/ \E i \in 1..Len(batches), s \in Subjects : SubjectSucceeds(i, s)
    \/ \E i \in 1..Len(batches), s \in Subjects : SubjectNoRows(i, s)
    \/ \E i \in 1..Len(batches), s \in Subjects : SubjectFails(i, s)
    \/ \E i \in 1..Len(batches) : Finish(i)

SpecBatch == Init /\ [][NextBatch]_vars

----------------------------------------------------------------------------
(* Specification of one batch in which every request that is issued is
   answered: the network settles each pending fetch, and the event loop runs
   the continuation of Promise.all once every worker promise has resolved *)

LiveSubjects == 1..(MaxLiveSubjects + 1)

LiveProps ==
    {[mounted |-> TRUE, studyNumber |-> 3, subjectIds |-> Ids(n),
      availableColumns |-> <<"ECG", "affect", "EDA">>] : n \in 0..MaxLiveSubjects}

MountLive == \E p \in LiveProps : props = NoProps /\ Load(p)

\* one of the pending requests of the batch settles, one way or another
Settle ==
    \E s \in LiveSubjects :
        \/ SubjectSucceeds(1, s)
        \/ SubjectNoRows(1, s)
        \/ SubjectFails(1, s)

NextLive ==
    \/ MountLive
    \/ \E s \in LiveSubjects : SubjectSucceeds(1, s)
    \/ \E s \in LiveSubjects : SubjectNoRows(1, s)
    \/ \E s \in LiveSubjects : SubjectFails(1, s)
    \/ Finish(1)

SpecLive ==
    /\ Init
    /\ [][NextLive]_vars
    /\ WF_vars(Settle)
    /\ WF_vars(Finish(1))

----------------------------------------------------------------------------
(* Specification of one batch in which one request is never answered while
   the network settles the other pending requests *)

\* the request of subject s is one the network never answers
Hang(s) ==
    /\ batches # <<>>
    /\ s \in Pending(batches[1])
    /\ batches[1].hung = {}
    /\ batches' = [batches EXCEPT ![1].hung = {s}]
    /\ UNCHANGED <<props, data, loading, loadingPCA, error, featureColumns, loadingProgress,
                   featureMatrixCache, pcaCache, pca, delivered, now, effectPath, keyCall>>

Answered(s) == batches # <<>> /\ s \notin batches[1].hung

\* one of the pending requests that are answered settles: it succeeds or fails
SettleOthers ==
    \E s \in LiveSubjects :
        /\ Answered(s)
        /\ \/ SubjectSucceeds(1, s)
           \/ SubjectFails(1, s)

\* a list long enough for the queue to outlast the start loop
HungProps ==
    {[mounted |-> TRUE, studyNumber |-> 3, subjectIds |-> Ids(MaxLiveSubjects),
      availableColumns |-> <<"ECG", "affect", "EDA">>]}

MountHung == \E p \in HungProps : props = NoProps /\ Load(p)

NextHung ==
    \/ MountHung
    \/ \E s \in LiveSubjects : Hang(s)
    \/ \E s \in LiveSubjects : Answered(s) /\ SubjectSucceeds(1, s)
    \/ \E s \in LiveSubjects : Answered(s) /\ SubjectFails(1, s)
    \/ Finish(1)

SpecHung ==
    /\ Init
    /\ [][NextHung]_vars
    /\ WF_vars(SettleOthers)

----------------------------------------------------------------------------
(* Specification of getCacheKey on its own: one call, on any study number, any
   feature list and any subject-id list of the sets below *)

KeyStudies == {3, 31}

KeyFeatureNames == {"ECG", "EDA", "dz"}

KeyIds == {1, 2, 12}

SeqsUpTo(S, n) == {<<>>} \cup UNION {[1..k -> S] : k \in 1..n}

KeyFeatureLists == SeqsUpTo(KeyFeatureNames, MaxKeyLen)

KeyIdLists == SeqsUpTo(KeyIds, MaxKeyLen)

InitKey ==
    /\ InitComponent
    /\ \E s \in KeyStudies, f \in KeyFeatureLists, ids \in KeyIdLists :
        keyCall = [called |-> FALSE, studyNumber |-> s, features |-> f, subjectIds |-> ids]

CallGetCacheKey ==
    /\ ~keyCall.called
    /\ keyCall' = [called |-> TRUE,
                   studyNumber |-> keyCall.studyNumber,
                   features |-> keyCall.features,
                   subjectIds |-> keyCall.subjectIds,
                   after |-> ArraysAfterKey(keyCall.features, keyCall.subjectIds),
                   key |-> getCacheKey(keyCall.studyNumber, keyCall.features,
                                       keyCall.subjectIds)]
    /\ UNCHANGED <<props, data, loading, loadingPCA, error, featureColumns, loadingProgress,
                   featureMatrixCache, pcaCache, batches, pca, delivered, effectPath, now>>

NextKey == CallGetCacheKey

SpecKey == InitKey /\ [][NextKey]_vars

----------------------------------------------------------------------------
(* Specification of overlapping loads: the parent re-renders the component
   with other props while batches are running *)

\* one query with its subject list in two orders, and another query
OverlapProps ==
    {[mounted |-> TRUE, studyNumber |-> 3, subjectIds |-> <<1, 2, 3>>,
      availableColumns |-> <<"ECG", "EDA">>],
     [mounted |-> TRUE, studyNumber |-> 3, subjectIds |-> <<3, 1, 2>>,
      availableColumns |-> <<"ECG", "EDA">>],
     [mounted |-> TRUE, studyNumber |-> 3, subjectIds |-> <<5>>,
      availableColumns |-> <<"ECG", "EDA">>]}

OverlapSubjects == {1, 2, 3, 5}

Switch == \E p \in OverlapProps : Len(Running(batches)) < MaxRunning /\ Load(p)

NextOverlap ==
    \/ Switch
    \/ \E i \in 1..Len(batches), s \in OverlapSubjects : SubjectSucceeds(i, s)
    \/ \E i \in 1..Len(batches) : Finish(i)

SpecOverlap == Init /\ [][NextOverlap]_vars

----------------------------------------------------------------------------
(* The projection: the PCA button and the aggregate request *)

\* what GET /pca/frequency may answer with a 2xx status: the point collection
\* (isArray is FALSE for a body without one)
Point(s, e, x, y) == [subject_id |-> s, emotion |-> e, pc1 |-> x, pc2 |-> y]

PcaResponses ==
    { [isArray |-> TRUE, variance_explained |-> <<60, 30>>,
       data_points |-> <<Point(1, "joy", 11, 12), Point(2, "joy", 21, 22)>>],
      [isArray |-> TRUE, variance_explained |-> <<50, 40>>,
       data_points |-> <<Point(2, "fear", 23, 24), Point(9, "joy", 91, 92)>>],
      [isArray |-> FALSE, variance_explained |-> <<0, 0>>, data_points |-> <<>>] }

\* data.find(d => d.subjectId === item.subject_id && d.emotion === item.emotion):
\* the index of the first matching row, 0 when there is none
FindMatch(rows, item) ==
    LET hits == {k \in 1..Len(rows) :
                    rows[k].subjectId = item.subject_id /\ rows[k].emotion = item.emotion}
    IN IF hits = {} THEN 0 ELSE CHOOSE k \in hits : \A j \in hits : k <= j

\* mutant: the join runs over the rows and drops the rows that have no point
dataWithPCA_OverRows(points, rows) ==
    LET Has(r) == \E k \in 1..Len(points) :
                      points[k].subject_id = r.subjectId /\ points[k].emotion = r.emotion
        kept == SelectSeq(rows, Has)
    IN IF kept = <<>> THEN <<>> ELSE
       [k \in 1..Len(kept) |->
           LET pt == CHOOSE q \in Range(points) :
                        q.subject_id = kept[k].subjectId /\ q.emotion = kept[k].emotion
           IN [subjectId |-> kept[k].subjectId, emotion |-> kept[k].emotion,
               features |-> kept[k].features, pc1 |-> pt.pc1, pc2 |-> pt.pc2]]

\* pcaResult.data_points.map(item => ({...item, features: matchingRow?.features || {}}))
dataWithPCA(points, rows) ==
    IF points = <<>> THEN <<>> ELSE
    [k \in 1..Len(points) |->
        LET m == FindMatch(rows, points[k])
        IN [subjectId |-> points[k].subject_id,
            emotion |-> points[k].emotion,
            features |-> IF m = 0 THEN {} ELSE rows[m].features,
            pc1 |-> points[k].pc1,
            pc2 |-> points[k].pc2]]

\* the button is rendered after the loading, error and no-data returns, when
\* there are at least two feature columns, and is disabled while loadingPCA
ButtonEnabled ==
    /\ props # NoProps
    /\ ~loading
    /\ error = NoError
    /\ Len(data) > 0
    /\ Len(featureColumns) >= 2
    /\ ~loadingPCA

PcaKey == getCacheKey(props.studyNumber, fftFeatures(props.availableColumns), props.subjectIds)

\* the click handler from the validation of pcaResult to its end
\* (rows and columns are those of the render the handler was created in)
Conclude(pcaResult, rows, columns) ==
    /\ loadingPCA' = FALSE
    /\ IF ~pcaResult.isArray
       THEN /\ error' = "Invalid PCA response: data_points not found"
            /\ UNCHANGED delivered
       ELSE /\ delivered' = [called |-> TRUE,
                             features |-> columns,
                             data |-> dataWithPCA(pcaResult.data_points, rows),
                             variance |-> pcaResult.variance_explained]
            /\ error' = NoError

\* mutant: the click handler does not look into the PCA cache
PcaClick_NoCache ==
    /\ ButtonEnabled
    /\ loadingPCA' = TRUE
    /\ error' = NoError
    /\ pca' = [stage |-> "fetch", key |-> PcaKey, data |-> data,
               featureColumns |-> featureColumns]
    /\ UNCHANGED <<props, data, loading, featureColumns, loadingProgress,
                   featureMatrixCache, pcaCache, batches, delivered, now, effectPath, keyCall>>

\* onClick up to its first suspension, or to its end when the PCA cache answers
PcaClick ==
    /\ ButtonEnabled
    /\ IF MapHas(pcaCache, PcaKey) /\ IsFresh(pcaCache[PcaKey], now)
       THEN /\ Conclude(pcaCache[PcaKey].result, data, featureColumns)
            /\ UNCHANGED pca
       ELSE /\ loadingPCA' = TRUE
            /\ error' = NoError
            /\ pca' = [stage |-> "fetch", key |-> PcaKey, data |-> data,
                       featureColumns |-> featureColumns]
            /\ UNCHANGED delivered
    /\ UNCHANGED <<props, data, loading, featureColumns, loadingProgress,
                   featureMatrixCache, pcaCache, batches, now, effectPath, keyCall>>

\* the aggregate request answers 2xx with body r
PcaResponds(r) ==
    /\ pca.stage = "fetch"
    /\ pcaCache' = MapSet(pcaCache, pca.key, [result |-> r, timestamp |-> now])
    /\ Conclude(r, pca.data, pca.featureColumns)
    /\ pca' = NoPca
    /\ UNCHANGED <<props, data, loading, featureColumns, loadingProgress,
                   featureMatrixCache, batches, now, effectPath, keyCall>>

\* mutant: the catch of the click handler also clears the published rows
PcaFails_DropRows ==
    /\ pca.stage = "fetch"
    /\ error' = "HTTP error!"
    /\ loadingPCA' = FALSE
    /\ pca' = NoPca
    /\ data' = <<>>
    /\ UNCHANGED <<props, loading, featureColumns, loadingProgress,
                   featureMatrixCache, pcaCache, batches, delivered, now, effectPath, keyCall>>

\* the aggregate request fails (non-2xx, network error)
PcaFails ==
    /\ pca.stage = "fetch"
    /\ error' = "HTTP error!"
    /\ loadingPCA' = FALSE
    /\ pca' = NoPca
    /\ UNCHANGED <<props, data, loading, featureColumns, loadingProgress,
                   featureMatrixCache, pcaCache, batches, delivered, now, effectPath, keyCall>>

----------------------------------------------------------------------------
(* The clock *)

Instants ==
    {0, CACHE_DURATION_MS - 1} \cup {k * CACHE_DURATION_MS : k \in 1..MaxEpochs}

Tick ==
    /\ \E t \in Instants : t > now /\ now' = t
    /\ UNCHANGED <<props, data, loading, loadingPCA, error, featureColumns, loadingProgress,
                   featureMatrixCache, pcaCache, batches, pca, delivered, effectPath, keyCall>>

----------------------------------------------------------------------------
(* Specification of the loader with its caches: the parent re-renders the
   component with other props between two batches, time passes, the user asks
   for projections *)

\* the same query with its two lists in two orders, a query without subjects
\* and a query without a supported column
CacheProps ==
    {[mounted |-> TRUE, studyNumber |-> 3, subjectIds |-> <<1, 2>>,
      availableColumns |-> <<"EDA", "ECG">>],
     [mounted |-> TRUE, studyNumber |-> 3, subjectIds |-> <<2, 1>>,
      availableColumns |-> <<"ECG", "CO", "EDA">>],
     [mounted |-> TRUE, studyNumber |-> 3, subjectIds |-> <<>>,
      availableColumns |-> <<"EDA", "ECG">>],
     [mounted |-> TRUE, studyNumber |-> 3, subjectIds |-> <<1, 2>>,
      availableColumns |-> <<"affect", "CO">>]}

Reload == \E p \in CacheProps : Running(batches) = <<>> /\ Load(p)

Next ==
    \/ Reload
    \/ \E i \in 1..Len(batches), s \in Subjects : SubjectSucceeds(i, s)
    \/ \E i \in 1..Len(batches), s \in Subjects : SubjectNoRows(i, s)
    \/ \E i \in 1..Len(batches), s \in Subjects : SubjectFails(i, s)
    \/ \E i \in 1..Len(batches) : Finish(i)
    \/ PcaClick
    \/ \E r \in PcaResponses : PcaResponds(r)
    \/ PcaFails
    \/ Tick

Spec == Init /\ [][Next]_vars

----------------------------------------------------------------------------
(* Properties of one batch *)

Settled(b) == {s \in DOMAIN b.task : b.task[s] \in {"completed", "norows", "failed"}}

\* the emotions of the rows of subject s in a row list, in their order in the list
RowsOfSubject(rows, s) ==
    LET OfS(r) == r.subjectId = s
        mine == SelectSeq(rows, OfS)
    IN IF mine = <<>> THEN <<>> ELSE [k \in 1..Len(mine) |-> mine[k].emotion]

\* the rows the response of subject s has contributed, by the state of its task
ContributedRows(b, s) ==
    IF b.task[s] = "completed" THEN ResponseEmotions(s) ELSE <<>>

RECURSIVE SumRowCounts(_, _)
SumRowCounts(b, ids) ==
    IF ids = {} THEN 0
    ELSE LET s == CHOOSE x \in ids : TRUE
         IN Len(ContributedRows(b, s)) + SumRowCounts(b, ids \ {s})

\* C1: within one batch the number of per-subject fetches that are dispatched
\* and not yet settled is at most 5, in every reachable state
C1_AtMostFivePending ==
    \A i \in 1..Len(batches) : Cardinality(Pending(batches[i])) <= 5

C1_Witness ==
    \E i \in 1..Len(batches) :
        /\ Cardinality(Pending(batches[i])) = 5
        /\ batches[i].queue = <<>>
        /\ \E s \in DOMAIN batches[i].task : batches[i].task[s] = "failed"
        /\ \E s \in DOMAIN batches[i].task : batches[i].task[s] = "completed"

\* C2: when a batch in which no fetch failed has finished, every subject of the
\* list has been fetched, the accumulator holds each subject's rows exactly once,
\* and its length is the sum of the row counts of the responses
C2_AllRowsOnce ==
    \A i \in 1..Len(batches) :
        LET b == batches[i] IN
        (b.status = "done" /\ \A s \in DOMAIN b.task : b.task[s] # "failed") =>
            /\ \A s \in DOMAIN b.task :
                /\ b.task[s] \in {"completed", "norows"}
                /\ RowsOfSubject(b.allRows, s) = ContributedRows(b, s)
            /\ Len(b.allRows) = SumRowCounts(b, DOMAIN b.task)

C2_Witness ==
    \E i \in 1..Len(batches) :
        /\ batches[i].status = "done"
        /\ batches[i].total >= 6
        /\ \A s \in DOMAIN batches[i].task : batches[i].task[s] = "completed"
        /\ Len(batches[i].allRows) >= 6
        /\ batches[i].allRows[1].subjectId # 1

\* C3: per-subject failures are absorbed by the batch: the error status stays
\* ok, every worker that has not returned still has its fetch pending, the batch
\* can finish as soon as every subject has settled, and the accumulator holds
\* the rows of exactly the subjects whose fetch succeeded
C3_FailuresAbsorbed ==
    \A i \in 1..Len(batches) :
        LET b == batches[i] IN
        /\ error = NoError
        /\ b.workers = Cardinality(Pending(b))
        /\ (Settled(b) = DOMAIN b.task) => b.workers = 0
        /\ b.status = "done" => Settled(b) = DOMAIN b.task
        /\ \A s \in DOMAIN b.task :
               RowsOfSubject(b.allRows, s) = ContributedRows(b, s)
        /\ \A k \in 1..Len(b.allRows) :
               /\ b.allRows[k].subjectId \in DOMAIN b.task
               /\ b.task[b.allRows[k].subjectId] = "completed"

C3_Witness ==
    \E i \in 1..Len(batches) :
        /\ batches[i].status = "done"
        /\ loading = FALSE
        /\ \E s \in DOMAIN batches[i].task : batches[i].task[s] = "failed"
        /\ \E s \in DOMAIN batches[i].task :
               batches[i].task[s] = "completed" /\ ResponseEmotions(s) # <<>>
        /\ batches[i].total >= 6

\* C4: at the end of every batch the published completed-count equals total
C4_ProgressReachesTotal ==
    \A i \in 1..Len(batches) :
        batches[i].status = "done" => loadingProgress.current = loadingProgress.total

\* C5: across the publications of one batch the completed-count never
\* decreases and never exceeds total
C5_ProgressMonotone ==
    /\ [](loadingProgress.current <= loadingProgress.total)
    /\ [][Len(batches') = Len(batches) =>
            loadingProgress'.current >= loadingProgress.current]_vars

C5_Witness ==
    /\ loadingProgress.total >= 6
    /\ loadingProgress.current = loadingProgress.total
    /\ \E i \in 1..Len(batches) : batches[i].status = "running"

\* C10: while the queue of a batch is non-empty exactly min(5, number of
\* subjects) of its fetches are pending
C10_NoIdleSlot ==
    \A i \in 1..Len(batches) :
        batches[i].queue # <<>> =>
            Cardinality(Pending(batches[i])) = Min(5, batches[i].total)

C10_Witness ==
    \E i \in 1..Len(batches) :
        /\ batches[i].queue # <<>>
        /\ \E s \in DOMAIN batches[i].task : batches[i].task[s] = "failed"
        /\ batches[i].task[6] = "inflight"
        /\ Cardinality(Pending(batches[i])) = 5

----------------------------------------------------------------------------
(* Properties of the caches and of the projection *)

\* the rows, the cache key and the points of the join a step performs
JoinRows == IF pca.stage = "fetch" THEN pca.data ELSE data

JoinKey == IF pca.stage = "fetch" THEN pca.key ELSE PcaKey

RowMatches(row, point) ==
    row.subjectId = point.subject_id /\ row.emotion = point.emotion

OutMatches(out, row) ==
    out.subjectId = row.subjectId /\ out.emotion = row.emotion

C7_NoCacheWriteOnFailure ==
    [][(pca.stage = "fetch" /\ pca'.stage = "idle" /\ error' # NoError) =>
            pcaCache' = pcaCache]_vars

C7_Witness ==
    /\ error = "Invalid PCA response: data_points not found"
    /\ pca.stage = "idle"
    /\ MapHas(pcaCache, PcaKey)
    /\ ~pcaCache[PcaKey].result.isArray

\* C8: a rows-cache or PCA-cache entry is served only while
\* now - timestamp < 5 minutes; from an age of exactly 5 minutes on, the load
\* starts a new batch and the trigger issues a new aggregate request
C8_ServedOnlyWhileYoung ==
    /\ [][(props' # props /\ effectPath' # "empty") =>
            LET k == getCacheKey(props'.studyNumber, fftFeatures(props'.availableColumns),
                                 props'.subjectIds)
                young == MapHas(featureMatrixCache, k)
                         /\ now - featureMatrixCache[k].timestamp < 5 * 60 * 1000
            IN IF young
               THEN /\ effectPath' = "hit"
                    /\ data' = featureMatrixCache[k].data
                    /\ batches' = batches
               ELSE /\ effectPath' = "miss"
                    /\ Len(Running(batches')) = Len(Running(batches)) + 1
                    /\ Pending(batches'[Len(batches')]) # {}
                    /\ batches'[Len(batches')].cacheKey = k
          ]_vars
    /\ [][PcaClick =>
            LET young == MapHas(pcaCache, PcaKey)
                         /\ now - pcaCache[PcaKey].timestamp < 5 * 60 * 1000
            IN IF young THEN pca' = pca /\ ~loadingPCA'
               ELSE pca'.stage = "fetch" /\ pca'.key = PcaKey /\ loadingPCA'
          ]_vars

C8_Witness ==
    /\ pca.stage = "fetch"
    /\ MapHas(pcaCache, pca.key)
    /\ now - pcaCache[pca.key].timestamp = CACHE_DURATION_MS
    /\ effectPath = "miss"
    /\ \E i \in 1..Len(batches) :
        /\ batches[i].status = "running"
        /\ MapHas(featureMatrixCache, batches[i].cacheKey)
        /\ now - featureMatrixCache[batches[i].cacheKey].timestamp = CACHE_DURATION_MS

\* C9: after a batch has finished, loading the same study, feature set and
\* subject set again (in any order) before 5 minutes have passed since the
\* write yields the rows and columns the batch wrote, issues no per-subject
\* request and ends with loading cleared
SameQuery(b, p) ==
    /\ b.studyNumber = p.studyNumber
    /\ Range(b.featuresParam) \ {","} = Range(fftFeatures(p.availableColumns))
    /\ DOMAIN b.task = Range(p.subjectIds)

C9_CacheRoundTrip ==
    [][\A i \in 1..Len(batches) :
        (/\ props' # props
         /\ batches[i].status = "done"
         /\ SameQuery(batches[i], props')
         /\ now - featureMatrixCache[batches[i].cacheKey].timestamp < CACHE_DURATION_MS)
        => /\ data' = batches[i].allRows
           /\ featureColumns' = batches[i].featureCols
           /\ loading' = FALSE
           /\ batches' = batches
      ]_vars

C9_Witness ==
    /\ effectPath = "hit"
    /\ props.subjectIds = <<2, 1>>
    /\ loading = FALSE
    /\ Len(data) = 3
    /\ data[1].subjectId = 2
    /\ now = CACHE_DURATION_MS - 1
    /\ \E i \in 1..Len(batches) :
        /\ batches[i].status = "done"
        /\ data = batches[i].allRows
        /\ featureMatrixCache[batches[i].cacheKey].timestamp = 0

----------------------------------------------------------------------------
(* Order of dispatch, end of a batch, life of a subject *)

\* C11: the i-th subject dispatched in a batch is the i-th element of the
\* subject-id list as the caller passed it, sorted or not
C11_DispatchInInputOrder ==
    \A i \in 1..Len(batches) :
        \A k \in 1..Len(batches[i].dispatched) :
            batches[i].dispatched[k] = props.subjectIds[k]

\* C12: a batch finishes (writes the rows cache, clears loading) only when its
\* queue is empty and none of its fetches is pending, and the entry it stores
\* is the accumulator: the rows of every subject that completed in the batch
C12_FinishStoresAccumulator ==
    [][\A i \in 1..Len(batches) :
        (/\ Len(batches') = Len(batches)
         /\ batches[i].status = "running"
         /\ batches'[i].status = "done")
        => LET b == batches[i] IN
           /\ b.queue = <<>>
           /\ Pending(b) = {}
           /\ Settled(b) = DOMAIN b.task
           /\ loading' = FALSE
           /\ MapHas(featureMatrixCache', b.cacheKey)
           /\ featureMatrixCache'[b.cacheKey].data = b.allRows
           /\ \A s \in DOMAIN b.task :
                RowsOfSubject(featureMatrixCache'[b.cacheKey].data, s)
                    = ContributedRows(b, s)
           /\ Len(featureMatrixCache'[b.cacheKey].data) = SumRowCounts(b, DOMAIN b.task)
      ]_vars

C12_Witness ==
    \E i \in 1..Len(batches) :
        /\ batches[i].status = "done"
        /\ batches[i].total = 7
        /\ MapHas(featureMatrixCache, batches[i].cacheKey)
        /\ Len(featureMatrixCache[batches[i].cacheKey].data) = 5
        /\ featureMatrixCache[batches[i].cacheKey].data[1].subjectId = 7
        /\ batches[i].task[5] = "failed"
        /\ ~loading

\* C13: when every fetch that is issued settles, every batch finishes: the
\* queue drains, all workers return, the rows cache is written and loading is
\* cleared
BatchStarted == \E i \in 1..Len(batches) : batches[i].status = "running"

BatchFinished ==
    /\ batches # <<>>
    /\ \A i \in 1..Len(batches) :
        /\ batches[i].status = "done"
        /\ batches[i].queue = <<>>
        /\ batches[i].workers = 0
        /\ MapHas(featureMatrixCache, batches[i].cacheKey)
    /\ ~loading

C13_BatchTerminates == BatchStarted ~> BatchFinished

C13_Witness ==
    /\ BatchFinished
    /\ batches[1].total >= 6
    /\ batches[1].task[1] = "failed"
    /\ batches[1].task[6] = "norows"
    /\ Len(batches[1].allRows) = 4

\* C14: within one batch a subject goes queued -> inflight -> completed or
\* failed and nothing else: it is dispatched exactly once, completed and failed
\* are terminal, a failed subject is never put back in the queue nor fetched again
Terminal == {"completed", "norows", "failed"}

C14_SubjectLifeCycle ==
    /\ [](\A i \in 1..Len(batches) :
            LET b == batches[i] IN
            /\ Cardinality(Range(b.dispatched)) = Len(b.dispatched)
            /\ Cardinality(Range(b.queue)) = Len(b.queue)
            /\ \A s \in DOMAIN b.task :
                /\ (b.task[s] = "queued") <=> Includes(b.queue, s)
                /\ (b.task[s] # "queued") <=> Includes(b.dispatched, s))
    /\ [][\A i \in 1..Len(batches) :
            Len(batches') = Len(batches) =>
                \A s \in DOMAIN batches[i].task :
                    LET old == batches[i].task[s]
                        new == batches'[i].task[s]
                    IN \/ new = old
                       \/ old = "queued" /\ new = "inflight"
                       \/ old = "inflight" /\ new \in Terminal
          ]_vars

C14_Witness ==
    \E i \in 1..Len(batches) :
        /\ batches[i].status = "done"
        /\ batches[i].dispatched = <<1, 2, 3, 4, 5, 6, 7>>
        /\ batches[i].task[2] = "failed"
        /\ batches[i].task[6] = "failed"
        /\ batches[i].task[7] = "completed"

----------------------------------------------------------------------------
(* The projection trigger *)

\* C15: a projection trigger issues no aggregate request when the PCA cache
\* holds an entry for the query key younger than 5 minutes and exactly one
\* otherwise; no trigger runs while an aggregate request is pending, so a
\* trigger never has more than one request
C15_OneRequestPerTrigger ==
    /\ [](pca.stage = "fetch" => loadingPCA /\ ~ButtonEnabled)
    /\ [][PcaClick =>
            /\ pca.stage = "idle"
            /\ IF MapHas(pcaCache, PcaKey)
                  /\ now - pcaCache[PcaKey].timestamp < CACHE_DURATION_MS
               THEN pca'.stage = "idle"
               ELSE /\ pca'.stage = "fetch"
                    /\ pca'.key = getCacheKey(props.studyNumber,
                                              fftFeatures(props.availableColumns),
                                              props.subjectIds)
          ]_vars

\* the trigger was served from the PCA cache: the entry was written one
\* millisecond before the rows were reloaded, and the error is that of the
\* cached response
C15_Witness ==
    /\ props # NoProps
    /\ pca.stage = "idle"
    /\ now = CACHE_DURATION_MS
    /\ MapHas(pcaCache, PcaKey)
    /\ pcaCache[PcaKey].timestamp = CACHE_DURATION_MS - 1
    /\ ~pcaCache[PcaKey].result.isArray
    /\ featureMatrixCache[PcaKey].timestamp = CACHE_DURATION_MS
    /\ error = "Invalid PCA response: data_points not found"

\* a step in which a projection trigger fails: the aggregate request fails,
\* or its response, fresh or cached, has no point collection
FailedTrigger ==
    \/ PcaFails
    \/ \E r \in PcaResponses : ~r.isArray /\ PcaResponds(r)
    \/ /\ PcaClick
       /\ MapHas(pcaCache, PcaKey)
       /\ IsFresh(pcaCache[PcaKey], now)
       /\ ~pcaCache[PcaKey].result.isArray

\* C16: a failed projection trigger fails that operation only: the error
\* status is set and no projection is delivered, while the rows cache, the
\* accumulated rows and the published rows and columns are left unchanged
C16_FailedTriggerIsLocal ==
    [][FailedTrigger =>
        /\ error' # NoError
        /\ ~loadingPCA'
        /\ delivered' = delivered
        /\ featureMatrixCache' = featureMatrixCache
        /\ batches' = batches
        /\ data' = data
        /\ featureColumns' = featureColumns
        /\ loading' = loading
      ]_vars

C16_Witness ==
    /\ error = "HTTP error!"
    /\ pca.stage = "idle"
    /\ ~loadingPCA
    /\ Len(data) = 3
    /\ delivered # NoDelivery
    /\ props # NoProps
    /\ MapHas(featureMatrixCache, PcaKey)
    /\ featureMatrixCache[PcaKey].data = data

----------------------------------------------------------------------------
(* Responses without rows, the column set, the published rows *)

\* C17: a 2xx per-subject response without a row collection is not an error:
\* the subject contributes no row, it is counted as completed in the progress,
\* the error status stays ok and the worker goes on with the next queued subject
C17_EmptyResponseCounts ==
    [][\A i \in 1..Len(batches) :
        Len(batches') = Len(batches) =>
            \A s \in DOMAIN batches[i].task :
                (batches[i].task[s] = "inflight" /\ batches'[i].task[s] = "norows") =>
                    LET b == batches[i]
                        c == batches'[i]
                    IN /\ c.allRows = b.allRows
                       /\ data' = b.allRows
                       /\ c.completedCount = b.completedCount + 1
                       /\ loadingProgress'.current = b.completedCount + 1
                       /\ error = NoError /\ error' = NoError
                       /\ c.status = "running"
                       /\ IF b.queue # <<>>
                          THEN /\ c.task[Head(b.queue)] = "inflight"
                               /\ c.queue = Tail(b.queue)
                               /\ c.workers = b.workers
                          ELSE c.workers = b.workers - 1
      ]_vars

C17_Witness ==
    \E i \in 1..Len(batches) :
        /\ batches[i].total = 7
        /\ batches[i].task[3] = "norows"
        /\ Settled(batches[i]) = {3}
        /\ batches[i].task[6] = "inflight"
        /\ batches[i].queue = <<7>>
        /\ loadingProgress.current = 1
        /\ error = NoError
        /\ data = <<>>

\* the batch has processed a 2xx response that carries a row collection (and
\* a column list): the capture of lines 898-903 has run
Captured(b) == \E s \in DOMAIN b.task : b.task[s] = "completed"

\* C18: the feature-column set of a batch is single-assignment: once it has
\* been captured from a response, no later response of the batch changes it,
\* nor the published column set, whatever the order of completion
C18_ColumnsSingleAssignment ==
    [][\A i \in 1..Len(batches) :
        (Len(batches') = Len(batches) /\ Captured(batches[i])) =>
            /\ batches'[i].featureCols = batches[i].featureCols
            /\ featureColumns' = featureColumns
      ]_vars

IsPrefix(a, b) == Len(a) <= Len(b) /\ SubSeq(b, 1, Len(a)) = a

\* C19: during one batch the published row collection grows monotonically:
\* every snapshot the batch publishes has the previously published snapshot as
\* a prefix, so no row that was shown is removed or reordered
C19_PublishedRowsGrow ==
    [][\A i \in 1..Len(batches) :
        Len(batches') = Len(batches) =>
            /\ IsPrefix(data, data')
            /\ IsPrefix(batches[i].allRows, batches'[i].allRows)
            /\ data' = batches'[i].allRows
      ]_vars

C19_Witness ==
    \E i \in 1..Len(batches) :
        /\ batches[i].status = "running"
        /\ batches[i].total = 7
        /\ Len(data) = 5
        /\ data[1].subjectId = 5
        /\ data[3].subjectId = 2
        /\ data[5].subjectId = 7
        /\ batches[i].task[1] = "inflight"

----------------------------------------------------------------------------
(* A request that never settles *)

\* every subject of the batch other than the hung one has been dispatched and
\* has settled, and the rows of those that succeeded are in the accumulator
OthersMerged ==
    \A i \in 1..Len(batches) :
        LET b == batches[i] IN
        \A s \in DOMAIN b.task \ b.hung :
            /\ s \in Settled(b)
            /\ RowsOfSubject(b.allRows, s) = ContributedRows(b, s)

\* C20: a request that never settles blocks only its own slot: when the
\* other requests settle, every other subject of the batch is eventually
\* dispatched and merged by the remaining workers (the batch itself stays
\* running, with the hung request pending)
C20_HungBlocksOneSlot ==
    /\ <>[]OthersMerged
    /\ [](\A i \in 1..Len(batches) :
            batches[i].hung # {} =>
                /\ batches[i].status = "running"
                /\ batches[i].hung \subseteq Pending(batches[i])
                /\ loading)

C20_Witness ==
    /\ batches # <<>>
    /\ batches[1].total >= 6
    /\ batches[1].hung = {2}
    /\ OthersMerged
    /\ batches[1].task[6] = "completed"
    /\ batches[1].task[1] = "failed"
    /\ batches[1].workers = 1

----------------------------------------------------------------------------
(* Properties of the cache key *)

\* the rearrangements of a list
Perms(s) ==
    IF s = <<>> THEN {<<>>}
    ELSE LET n == Len(s)
             Bij == {p \in [1..n -> 1..n] : \A i, j \in 1..n : i # j => p[i] # p[j]}
         IN {[i \in 1..n |-> s[p[i]]] : p \in Bij}

\* C21: the cache key is invariant under reordering of its inputs: for every
\* study number and all non-empty feature and subject-id lists, every
\* permutation of either list gives the same key
C21_KeyIgnoresOrder ==
    (keyCall.called /\ keyCall.features # <<>> /\ keyCall.subjectIds # <<>>) =>
        \A f \in Perms(keyCall.features), ids \in Perms(keyCall.subjectIds) :
            getCacheKey(keyCall.studyNumber, f, ids) = keyCall.key

C21_Witness ==
    /\ keyCall.called
    /\ keyCall.features = <<"dz", "ECG">>
    /\ keyCall.subjectIds = <<12, 2>>
    /\ keyCall.key = "31:ECG,dz:2,12"

\* C22: for the same study and feature list two subject-id lists whose sorted
\* sequences differ give different keys, and so do two study numbers
C22_KeySeparatesQueries ==
    keyCall.called =>
        \A s \in KeyStudies, ids \in KeyIdLists :
            (s # keyCall.studyNumber \/ SortNum(ids) # SortNum(keyCall.subjectIds)) =>
                getCacheKey(s, keyCall.features, ids) # keyCall.key

C22_Witness ==
    /\ keyCall.called
    /\ keyCall.features = <<"EDA">>
    /\ keyCall.subjectIds = <<2, 1>>
    /\ keyCall.key = "3:EDA:1,2"
    /\ <<12>> \in KeyIdLists

\* C23: building the cache key has no side effects: after the call the two
\* lists passed in hold the same elements in the same order as before
C23_KeyLeavesArguments ==
    keyCall.called =>
        /\ keyCall.after.features = keyCall.features
        /\ keyCall.after.subjectIds = keyCall.subjectIds

----------------------------------------------------------------------------
(* Publications, concurrent batches, cache entries *)

\* the subjects of a batch whose fetch has completed successfully
Succeeded(b) == {s \in DOMAIN b.task : b.task[s] \in {"completed", "norows"}}

\* C24: every publication of a batch is a consistent pair: the published
\* completed-count is the number of subjects whose fetch has completed
\* successfully, and the published snapshot holds exactly the rows of those
\* subjects, the rows of a subject contiguous and the subjects in completion order
C24_ConsistentPublication ==
    /\ [](\A i \in 1..Len(batches) :
            LET b == batches[i] IN
            /\ loadingProgress.current = Cardinality(Succeeded(b))
            /\ loadingProgress.currentBatch = loadingProgress.current
            /\ data = b.allRows
            /\ \A s \in DOMAIN b.task : RowsOfSubject(data, s) = ContributedRows(b, s)
            /\ \A k \in 1..Len(data) : data[k].subjectId \in Succeeded(b))
    /\ [][\A i \in 1..Len(batches) :
            Len(batches') = Len(batches) =>
                \A s \in DOMAIN batches[i].task :
                    (batches[i].task[s] = "inflight"
                        /\ batches'[i].task[s] \in {"completed", "norows"}) =>
                        /\ loadingProgress'.current = loadingProgress.current + 1
                        /\ Len(data') = Len(data) + Len(ContributedRows(batches'[i], s))
                        /\ SubSeq(data', 1, Len(data)) = data
                        /\ \A k \in (Len(data) + 1)..Len(data') :
                            /\ data'[k].subjectId = s
                            /\ data'[k].emotion = ResponseEmotions(s)[k - Len(data)]
          ]_vars

C24_Witness ==
    \E i \in 1..Len(batches) :
        /\ batches[i].status = "running"
        /\ batches[i].total = 7
        /\ batches[i].task[2] = "failed"
        /\ batches[i].task[4] = "norows"
        /\ loadingProgress.current = 3
        /\ Len(data) = 3
        /\ data[1].subjectId = 5
        /\ data[2].subjectId = 5
        /\ data[3].subjectId = 1

\* the key of the query of the props p
KeyOf(p) == getCacheKey(p.studyNumber, fftFeatures(p.availableColumns), p.subjectIds)

StillRunning(bs) == LET Unfinished(b) == b.status = "running" IN SelectSeq(bs, Unfinished)

\* C25: concurrent identical invocations are not deduplicated: the rows cache
\* is written when a batch finishes, so an invocation that starts while a
\* batch of the same key is running, with no young entry under that key,
\* misses the cache and issues the requests of its own batch next to those of
\* the running one; the limit of 5 pending requests holds in each batch
C25_NoDeduplication ==
    /\ [](\A i \in 1..Len(batches) : Cardinality(Pending(batches[i])) <= 5)
    /\ [][(/\ props' # props
           /\ \E i \in 1..Len(batches) :
                /\ batches[i].status = "running"
                /\ batches[i].cacheKey = KeyOf(props')
           /\ ~(MapHas(featureMatrixCache, KeyOf(props'))
                 /\ now - featureMatrixCache[KeyOf(props')].timestamp < CACHE_DURATION_MS))
          => LET new == batches'[Len(batches')]
                 old == StillRunning(batches)
             IN /\ effectPath' = "miss"
                /\ Len(batches') = Len(old) + 1
                /\ SubSeq(batches', 1, Len(old)) = old
                /\ new.status = "running"
                /\ new.cacheKey = KeyOf(props')
                /\ DOMAIN new.task = Range(props'.subjectIds)
                /\ Pending(new) \cup Range(new.queue) = DOMAIN new.task
                /\ Cardinality(Pending(new)) = Min(5, Len(props'.subjectIds))
                /\ new.allRows = <<>>
          ]_vars

\* two running batches of one key with six requests pending between them
C25_Witness ==
    \E i, j \in 1..Len(batches) :
        /\ i < j
        /\ batches[i].status = "running" /\ batches[j].status = "running"
        /\ batches[i].cacheKey = batches[j].cacheKey
        /\ ~MapHas(featureMatrixCache, batches[i].cacheKey)
        /\ Cardinality(Pending(batches[i])) + Cardinality(Pending(batches[j])) = 6

\* C26: a stored cache entry is immutable: a hit changes neither its payload
\* nor its timestamp, no entry is removed, and the entry under a key changes
\* only when a batch (rows cache) or an aggregate request (PCA cache) of that
\* key completes and stores a whole new entry stamped with the current time
C26_EntriesImmutable ==
    [][/\ DOMAIN featureMatrixCache \subseteq DOMAIN featureMatrixCache'
       /\ DOMAIN pcaCache \subseteq DOMAIN pcaCache'
       /\ \A k \in DOMAIN featureMatrixCache' :
            (k \notin DOMAIN featureMatrixCache
                \/ featureMatrixCache'[k] # featureMatrixCache[k]) =>
                \E i \in 1..Len(batches) :
                    /\ batches[i].status = "running"
                    /\ batches'[i].status = "done"
                    /\ batches[i].cacheKey = k
                    /\ featureMatrixCache'[k] = [data |-> batches[i].allRows,
                                                 columns |-> batches[i].featureCols,
                                                 timestamp |-> now]
       /\ \A k \in DOMAIN pcaCache' :
            (k \notin DOMAIN pcaCache \/ pcaCache'[k] # pcaCache[k]) =>
                /\ pca.stage = "fetch"
                /\ pca'.stage = "idle"
                /\ pca.key = k
                /\ pcaCache'[k].timestamp = now
                /\ pcaCache'[k].result \in PcaResponses
       /\ (props' # props /\ effectPath' = "hit") =>
            featureMatrixCache' = featureMatrixCache
       /\ PcaClick => pcaCache' = pcaCache
      ]_vars

\* a hit at 4:59.999 on entries stored at 0, after the rows entry has served a load
C26_Witness ==
    /\ effectPath = "hit"
    /\ now = CACHE_DURATION_MS - 1
    /\ props.subjectIds = <<1, 2>>
    /\ featureMatrixCache[KeyOf(props)].timestamp = 0
    /\ data = featureMatrixCache[KeyOf(props)].data
    /\ MapHas(pcaCache, KeyOf(props))
    /\ pcaCache[KeyOf(props)].timestamp = 0
    /\ pca.stage = "idle"
    /\ delivered # NoDelivery

\* the subjects of a batch whose fetch failed
Failed(b) == {s \in DOMAIN b.task : b.task[s] = "failed"}

\* C27: the rows cache is written at the end of every batch that finishes,
\* whatever the number of failed subjects (an empty row list when all failed);
\* a load of the same query within 5 minutes is served those incomplete rows
\* and issues no request for the subjects that failed
C27_IncompleteRowsCached ==
    /\ [](\A i \in 1..Len(batches) :
            batches[i].status = "done" =>
                /\ MapHas(featureMatrixCache, batches[i].cacheKey)
                /\ featureMatrixCache[batches[i].cacheKey].data = batches[i].allRows
                /\ \A s \in Failed(batches[i]) :
                       RowsOfSubject(featureMatrixCache[batches[i].cacheKey].data, s) = <<>>
                /\ (Failed(batches[i]) = DOMAIN batches[i].task
                        => featureMatrixCache[batches[i].cacheKey].data = <<>>))
    /\ [][\A i \in 1..Len(batches) :
            (/\ props' # props
             /\ batches[i].status = "done"
             /\ KeyOf(props') = batches[i].cacheKey
             /\ Len(props'.subjectIds) > 0
             /\ now - featureMatrixCache[batches[i].cacheKey].timestamp < CACHE_DURATION_MS)
            => /\ effectPath' = "hit"
               /\ data' = batches[i].allRows
               /\ \A s \in Failed(batches[i]) : RowsOfSubject(data', s) = <<>>
               /\ batches' = batches
               /\ loading' = FALSE
          ]_vars

C27_Witness ==
    /\ effectPath = "hit"
    /\ now = CACHE_DURATION_MS - 1
    /\ props.subjectIds = <<2, 1>>
    /\ data = <<>>
    /\ ~loading
    /\ \E i \in 1..Len(batches) :
        /\ batches[i].status = "done"
        /\ Failed(batches[i]) = {1, 2}
        /\ featureMatrixCache[batches[i].cacheKey].data = <<>>
        /\ featureMatrixCache[batches[i].cacheKey].timestamp = 0

\* batch i belongs to a load that a later load has replaced: the last load
\* was served without a batch, or started the batch at the end of the list
Superseded(i) == effectPath # "miss" \/ i < Len(batches)

CurrentBatchRunning ==
    /\ effectPath = "miss"
    /\ batches # <<>>
    /\ batches[Len(batches)].status = "running"

\* C28: a superseded batch never overwrites the view of the query that
\* replaced it: no later step of the old batch changes the published rows,
\* column set or progress, and loading is not cleared while the batch of the
\* new query is running
C28_SupersededBatchIsSilent ==
    [][\A i \in 1..Len(batches) :
        (props' = props /\ Superseded(i) /\ batches'[i] # batches[i]) =>
            /\ data' = data
            /\ featureColumns' = featureColumns
            /\ loadingProgress' = loadingProgress
            /\ (CurrentBatchRunning => loading' = loading)
      ]_vars

----------------------------------------------------------------------------
(* Error status of a load, loads without a query *)

\* C29: every new load starts with the error status ok: whether the query is
\* served from the rows cache or by a new batch, the error left by an earlier
\* failed projection trigger is cleared
C29_LoadClearsError ==
    [][(props' # props /\ effectPath' \in {"hit", "miss"}) => error' = NoError]_vars

\* C30: when the subject-id list is empty or no requested column is an
\* FFT-supported feature, the loader issues no request and starts no batch:
\* the row collection becomes empty, loading is cleared, and neither cache is
\* written nor decides what is published
C30_NothingToLoad ==
    [][(/\ props' # props
        /\ \/ Len(props'.subjectIds) = 0
           \/ \A k \in 1..Len(props'.availableColumns) :
                ~Includes(FFT_SUPPORTED_FEATURES, props'.availableColumns[k]))
       => /\ data' = <<>>
          /\ loading' = FALSE
          /\ batches' = batches
          /\ featureMatrixCache' = featureMatrixCache
          /\ pcaCache' = pcaCache
          /\ effectPath' = "empty"
          /\ featureColumns' = featureColumns
          /\ loadingProgress' = loadingProgress
      ]_vars

\* the rows of a cached query were on display when the columns changed
C30_Witness ==
    /\ effectPath = "empty"
    /\ props.subjectIds = <<1, 2>>
    /\ props.availableColumns = <<"affect", "CO">>
    /\ data = <<>>
    /\ ~loading
    /\ Len(featureColumns) = 2
    /\ loadingProgress.current = 2
    /\ MapHas(featureMatrixCache, getCacheKey(3, <<"ECG", "EDA">>, <<1, 2>>))
    /\ Len(featureMatrixCache[getCacheKey(3, <<"ECG", "EDA">>, <<1, 2>>)].data) = 3
    /\ now = 0

====
